---- MODULE Spec2Model ----
(***************************************************************************)
(* A model of the frugal JIT core: the trivial dead-code elimination pass  *)
(* over an SSA control-flow graph (ssa.TDCE), the pointer bitmap and stack *)
(* map builder (rt.Bitmap, rt.StackMap, rt.StackMapBuilder) and the        *)
(* encoder link step (encoder.Link).                                       *)
(***************************************************************************)
EXTENDS Integers, Sequences, FiniteSets, TLC

VARIABLES
    cfg,      \* the CFG under optimisation: block name -> [Phi, Ins, Term]
    pc,       \* position of the thread running TDCE.Apply
    decl,     \* Apply's local map decl (a set of registers)
    done,     \* Apply's local flag done
    napply,   \* how many Apply calls have been started on cfg
    cfgA,     \* history: the CFG at the call of the current Apply
    cfgR,     \* history: the CFG at the head of the current round
    round,    \* history: rounds started by the current Apply
    bmp,      \* a Bitmap [N, B]: the builder's field b, or a Bitmap of its own
    last,     \* history: the last Bitmap / builder call and how it ended
    fields,   \* history: the pointer flags the builder was asked to append
    calls,    \* history: the AddField / AddFields calls made on the builder, counted
    sm,       \* the StackMap returned by the last Build, or NoMap
    heap,     \* the StackMaps Build allocated that their caller holds, by address
    stackMapCache,  \* _stackMapCache: the addresses of the retained StackMaps
    stackMapLock,   \* _stackMapLock: the thread holding it, or Free
    tpc,      \* position of each thread in Pin / freeze
    tself,    \* the receiver of each thread's Pin call, an address
    tmap,     \* the retention set as each thread read it inside the insertion
    pins,     \* history: <<address, handle>> of every Pin call that returned
    linker,   \* the package variable linker, an interface value [tab, data]
    lpc,      \* position of each thread in Link / SetLinker
    lreg,     \* each thread's locals in Link / SetLinker
    links,    \* history: the Link calls that ended, in order
    lastSet   \* history: the argument of the last SetLinker that returned

tdceVars == <<cfg, pc, decl, done, napply, cfgA, cfgR, round>>

rtVars == <<bmp, last, fields, calls, sm>>

pinVars == <<heap, stackMapCache, stackMapLock, tpc, tself, tmap, pins>>

linkVars == <<linker, lpc, lreg, links, lastSet>>

vars == <<cfg, pc, decl, done, napply, cfgA, cfgR, round, bmp, last, fields, calls, sm,
          heap, stackMapCache, stackMapLock, tpc, tself, tmap, pins,
          linker, lpc, lreg, links, lastSet>>

-----------------------------------------------------------------------------
(* Bounds of the model. *)

\* registers are Rz (the sentinel) and 1..MaxReg
MaxReg == 2
\* Apply calls made in a row on one CFG
MaxApply == 2
\* bits a Bitmap grows to
MaxBits == 9
\* largest n handed to AppendMany / AddFields
MaxN == 3
\* AddField / AddFields calls made on one builder
MaxCalls == 4
\* StackMaps a caller builds and holds on to
MaxMaps == 2
\* bits of the builder whose StackMaps are pinned
MaxPinBits == 3
\* Link calls made
MaxLinkCalls == 2

-----------------------------------------------------------------------------
(* Registers (ssa.Reg): a value with a Kind and a zero value. *)

K_zero == "K_zero"
K_norm == "K_norm"

\* the zero register
Rz == 0

Reg == 0 .. MaxReg

\* Reg.Kind
Kind(r) == IF r = Rz THEN K_zero ELSE K_norm

\* Reg.Zero
Zero(r) == Rz

-----------------------------------------------------------------------------
(* IR nodes.  A node is [id, hasDefs, defs, hasUse, uses]: id is the       *)
(* node's identity (nodes are held by pointer), hasDefs / hasUse say       *)
(* whether the node's type implements IrDefinitions / IrUsages, defs and   *)
(* uses are the register slots those interfaces expose.  A Phi node always *)
(* implements both and defines one register.  A terminator also carries    *)
(* succ, the blocks its control edges lead to.                             *)

Blocks == {"b0", "b1"}
EntryBlock == "b0"

SeqsUpTo(S, n) == UNION {[1 .. k -> S] : k \in 0 .. n}

Range(s) == {s[i] : i \in DOMAIN s}

\* v.(IrDefinitions); Definitions()
Definitions(v) == IF v.hasDefs THEN v.defs ELSE <<>>

\* v.(IrUsages); Usages()
Usages(v) == IF v.hasUse THEN v.uses ELSE <<>>

-----------------------------------------------------------------------------
(* CFG.PostOrder: every block reachable from the entry block once, after   *)
(* its successors.                                                         *)

RECURSIVE PostVisit(_, _, _)
RECURSIVE PostVisitAll(_, _, _)

PostVisit(g, b, st) ==
    IF b \in st.seen THEN st
    ELSE LET st1 == [st EXCEPT !.seen = @ \cup {b}]
             st2 == PostVisitAll(g, g[b].Term.succ, st1)
         IN  [st2 EXCEPT !.out = Append(@, b)]

PostVisitAll(g, S, st) ==
    IF S = {} THEN st
    ELSE LET s == CHOOSE x \in S : TRUE
         IN  PostVisitAll(g, S \ {s}, PostVisit(g, s, st))

PostOrder(g) == PostVisit(g, EntryBlock, [seen |-> {}, out |-> <<>>]).out

-----------------------------------------------------------------------------
(* TDCE.Apply, phase by phase. *)

\* the nodes of a block the phases 1..3 walk: Phi, Ins, Term
NodesOf(bb) == Range(bb.Phi) \cup Range(bb.Ins) \cup {bb.Term}

\* Phase 1 on one block: the registers its nodes declare
Phase1Block(bb) ==
    UNION {Range(v.defs) : v \in Range(bb.Phi)}
      \cup UNION {Range(Definitions(v)) : v \in Range(bb.Ins)}
      \cup Range(Definitions(bb.Term))

\* Phase 1: decl after marking all definitions
Phase1Decl(g, d) == d \cup UNION {Phase1Block(g[b]) : b \in Range(PostOrder(g))}

\* Phase 2 on one block, without the terminator's usages
Phase2Block_NoTerm(bb) ==
    UNION {Range(v.uses) : v \in Range(bb.Phi)}
      \cup UNION {Range(Usages(v)) : v \in Range(bb.Ins)}

\* Phase 2 on one block, without the usages of the Phi nodes
Phase2Block_NoPhi(bb) ==
    UNION {Range(Usages(v)) : v \in Range(bb.Ins)}
      \cup Range(Usages(bb.Term))

\* Phase 2 on one block: the registers its nodes use
Phase2Block(bb) ==
    UNION {Range(v.uses) : v \in Range(bb.Phi)}
      \cup UNION {Range(Usages(v)) : v \in Range(bb.Ins)}
      \cup Range(Usages(bb.Term))

\* Phase 2: decl after deleting all usages
Phase2Decl(g, d) == d \ UNION {Phase2Block(g[b]) : b \in Range(PostOrder(g))}

\* Phase 3, the test without the check of the register's kind
Unused_NoKind(d, r) == r \in d

\* Phase 3, the test guarding a rewrite of slot value r
Unused(d, r) == r \in d /\ Kind(r) # K_zero

\* Phase 3 on the Definitions() of one node, all of them rewritten as soon
\* as one is unused
ZeroDefs_Whole(d, rr) ==
    [i \in DOMAIN rr |->
        IF \E j \in DOMAIN rr : Unused(d, rr[j]) THEN Zero(rr[i]) ELSE rr[i]]

\* Phase 3 on the Definitions() of one node
ZeroDefs(d, rr) == [i \in DOMAIN rr |-> IF Unused(d, rr[i]) THEN Zero(rr[i]) ELSE rr[i]]

\* Phase 3 on a Phi node (Definitions() is called unconditionally)
Phase3Phi(d, v) == [v EXCEPT !.defs = ZeroDefs(d, @)]

\* Phase 3 on an instruction or terminator (only with IrDefinitions)
Phase3Node(d, v) == IF v.hasDefs THEN [v EXCEPT !.defs = ZeroDefs(d, @)] ELSE v

Phase3Block(d, bb) ==
    [Phi  |-> [i \in DOMAIN bb.Phi |-> Phase3Phi(d, bb.Phi[i])],
     Ins  |-> [i \in DOMAIN bb.Ins |-> Phase3Node(d, bb.Ins[i])],
     Term |-> Phase3Node(d, bb.Term)]

\* Phase 3: the CFG after the rewrites
Phase3Cfg(g, d) ==
    [b \in DOMAIN g |-> IF b \in Range(PostOrder(g)) THEN Phase3Block(d, g[b]) ELSE g[b]]

\* Phase 3: whether some slot is rewritten (done is set to false)
Phase3Changes(g, d) ==
    \E b \in Range(PostOrder(g)) :
        \/ \E v \in Range(g[b].Phi) : \E i \in DOMAIN v.defs : Unused(d, v.defs[i])
        \/ \E v \in Range(g[b].Ins) \cup {g[b].Term} :
               \E i \in DOMAIN Definitions(v) : Unused(d, Definitions(v)[i])

\* Phase 4, a Phi node is appended to phi
KeepPhi(v) == \E i \in DOMAIN v.defs : Kind(v.defs[i]) # K_zero

\* Phase 4, an instruction with an empty Definitions() treated as all zeros
KeepIns_NoEmpty(v) ==
    IF ~v.hasDefs THEN TRUE
    ELSE \E i \in DOMAIN v.defs : Kind(v.defs[i]) # K_zero

\* Phase 4, an instruction without IrDefinitions treated as all zeros
KeepIns_NoCap(v) ==
    IF Len(Definitions(v)) = 0 THEN v.hasDefs
    ELSE \E i \in DOMAIN v.defs : Kind(v.defs[i]) # K_zero

\* Phase 4, an instruction is appended to ins
KeepIns(v) ==
    IF ~v.hasDefs THEN TRUE
    ELSE IF Len(v.defs) = 0 THEN TRUE
    ELSE \E i \in DOMAIN v.defs : Kind(v.defs[i]) # K_zero

\* Phase 4 on one block, the scan of an instruction's registers without its
\* break: the instruction is appended once for each register that is not zero
Phase4Block_NoBreak(bb) ==
    LET n(v) == IF ~v.hasDefs THEN 1
                ELSE IF Len(v.defs) = 0 THEN 1
                ELSE Cardinality({i \in DOMAIN v.defs : Kind(v.defs[i]) # K_zero})
        ins[k \in 0 .. Len(bb.Ins)] ==
            IF k = 0 THEN <<>>
            ELSE ins[k - 1] \o [i \in 1 .. n(bb.Ins[k]) |-> bb.Ins[k]]
    IN  [bb EXCEPT !.Phi = SelectSeq(@, KeepPhi), !.Ins = ins[Len(bb.Ins)]]

\* Phase 4 on one block: bb.Phi and bb.Ins rebuilt from the entries kept
Phase4Block(bb) ==
    [bb EXCEPT !.Phi = SelectSeq(@, KeepPhi), !.Ins = SelectSeq(@, KeepIns)]

\* Phase 4: the CFG after rebuilding the blocks
Phase4Cfg(g) ==
    [b \in DOMAIN g |-> IF b \in Range(PostOrder(g)) THEN Phase4Block(g[b]) ELSE g[b]]

-----------------------------------------------------------------------------
(* The CFGs handed to Apply.  Two blocks, b0 -> b1.  b0 holds up to two    *)
(* instructions and ends in a jump; b1 holds at most one Phi node (it is   *)
(* then a loop header, with an edge to itself) and ends in a terminator    *)
(* that may read or declare a register.  An instruction declares zero, one *)
(* or two registers, or has no IrDefinitions at all, and reads at most one.*)

DefsShapes1 ==
    {[hasDefs |-> FALSE, defs |-> <<>>], [hasDefs |-> TRUE, defs |-> <<>>]}
      \cup {[hasDefs |-> TRUE, defs |-> <<r>>] : r \in Reg}

DefsShapes ==
    DefsShapes1 \cup {[hasDefs |-> TRUE, defs |-> <<r, s>>] : r \in Reg, s \in Reg}

UsesShapes ==
    {[hasUse |-> FALSE, uses |-> <<>>]} \cup {[hasUse |-> TRUE, uses |-> <<r>>] : r \in Reg}

NoDefs == [hasDefs |-> FALSE, defs |-> <<>>]
NoUses == [hasUse |-> FALSE, uses |-> <<>>]

Node(id, d, u) ==
    [id |-> id, hasDefs |-> d.hasDefs, defs |-> d.defs, hasUse |-> u.hasUse, uses |-> u.uses]

TermNode(id, d, u, succ) ==
    [id |-> id, hasDefs |-> d.hasDefs, defs |-> d.defs, hasUse |-> u.hasUse,
     uses |-> u.uses, succ |-> succ]

\* instruction lists of b0
InsLists ==
    {<<>>}
      \cup {<<Node("i0", d, u)>> : d \in DefsShapes, u \in UsesShapes}
      \cup {<<Node("i0", d, u), Node("i1", e, w)>> :
               d \in DefsShapes, u \in UsesShapes, e \in DefsShapes1,
               w \in {x \in UsesShapes : Rz \notin Range(x.uses)}}

\* Phi lists of b1: the Phi node reads the zero register or itself
PhiLists ==
    {<<>>}
      \cup {<<Node("p1", [hasDefs |-> TRUE, defs |-> <<r>>],
                         [hasUse |-> TRUE, uses |-> <<Rz>>])>> : r \in 1 .. MaxReg}
      \cup {<<Node("p1", [hasDefs |-> TRUE, defs |-> <<r>>],
                         [hasUse |-> TRUE, uses |-> <<r>>])>> : r \in 1 .. MaxReg}

\* what the terminator of b1 declares and reads
TermShapes ==
    {<<NoDefs, NoUses>>}
      \cup {<<NoDefs, [hasUse |-> TRUE, uses |-> <<r>>]>> : r \in 1 .. MaxReg}
      \cup {<<[hasDefs |-> TRUE, defs |-> <<r>>], NoUses>> : r \in 1 .. MaxReg}

InputCfg(ins, phi, t) ==
    [b \in Blocks |->
        IF b = EntryBlock
        THEN [Phi |-> <<>>, Ins |-> ins, Term |-> TermNode("t0", NoDefs, NoUses, {"b1"})]
        ELSE [Phi |-> phi, Ins |-> <<>>,
              Term |-> TermNode("t1", t[1], t[2], IF phi = <<>> THEN {} ELSE {"b1"})]]

InputCfgs == {InputCfg(ins, phi, t) : ins \in InsLists, phi \in PhiLists, t \in TermShapes}

\* the CFGs with at most one instruction in b0
SmallCfgs ==
    {InputCfg(ins, phi, t) :
       ins \in {l \in InsLists : Len(l) <= 1}, phi \in PhiLists, t \in TermShapes}

-----------------------------------------------------------------------------
(* rt.Bitmap: N bits packed into the bytes B, bit i in byte i/8 at bit     *)
(* position i%8.  B is a sequence, so byte k of the code is B[k + 1].      *)

\* bit k of a byte
ByteBit(byte, k) == (byte \div (2 ^ k)) % 2

\* byte |= 1 << k
OrBit(byte, k) == IF ByteBit(byte, k) = 1 THEN byte ELSE byte + 2 ^ k

\* byte &^= 1 << k
AndNotBit(byte, k) == IF ByteBit(byte, k) = 1 THEN byte - 2 ^ k ELSE byte

\* Bitmap.grow with > in place of >=
grow_Late(bm) == IF bm.N > Len(bm.B) * 8 THEN [bm EXCEPT !.B = Append(@, 0)] ELSE bm

\* Bitmap.grow
grow(bm) == IF bm.N >= Len(bm.B) * 8 THEN [bm EXCEPT !.B = Append(@, 0)] ELSE bm

\* Bitmap.mark stops the program: B[i/8] is out of range, or the shift
\* count i%8 is negative
markPanics(bm, i) == i < 0 \/ (i \div 8) + 1 > Len(bm.B)

\* Bitmap.mark with the bits of a byte numbered from the top
mark_TopFirst(bm, i, bv) ==
    [bm EXCEPT !.B[(i \div 8) + 1] =
        IF bv # 0 THEN OrBit(@, 7 - (i % 8)) ELSE AndNotBit(@, 7 - (i % 8))]

\* Bitmap.mark
mark(bm, i, bv) ==
    [bm EXCEPT !.B[(i \div 8) + 1] =
        IF bv # 0 THEN OrBit(@, i % 8) ELSE AndNotBit(@, i % 8)]

\* the outcome of a call: the Bitmap it leaves and whether it panicked
Ok(bm) == [bm |-> bm, panic |-> FALSE]
Panic(bm) == [bm |-> bm, panic |-> TRUE]

\* Bitmap.Set with > in place of >=
BitmapSet_Late(bm, i, bv) ==
    IF i > bm.N THEN Panic(bm)
    ELSE IF markPanics(bm, i) THEN Panic(bm)
    ELSE Ok(mark(bm, i, bv))

\* Bitmap.Set
BitmapSet(bm, i, bv) ==
    IF i >= bm.N THEN Panic(bm)
    ELSE IF markPanics(bm, i) THEN Panic(bm)
    ELSE Ok(mark(bm, i, bv))

\* Bitmap.Append
BitmapAppend(bm, bv) ==
    LET g == grow(bm)
    IN  IF markPanics(g, g.N) THEN Panic(g)
        ELSE Ok([mark(g, g.N, bv) EXCEPT !.N = @ + 1])

RECURSIVE AppendLoop(_, _, _, _)
\* the loop of Bitmap.AppendMany from counter i on
AppendLoop(bm, i, n, bv) ==
    IF i < n
    THEN LET r == BitmapAppend(bm, bv)
         IN  IF r.panic THEN r ELSE AppendLoop(r.bm, i + 1, n, bv)
    ELSE Ok(bm)

\* Bitmap.AppendMany with the loop run once more
BitmapAppendMany_Inclusive(bm, n, bv) == AppendLoop(bm, 0, n + 1, bv)

\* Bitmap.AppendMany
BitmapAppendMany(bm, n, bv) == AppendLoop(bm, 0, n, bv)

-----------------------------------------------------------------------------
(* rt.StackMap and rt.StackMapBuilder. *)

MaxInt32 == 2147483647

RECURSIVE Int32(_)
\* the conversion int32(x): x wrapped into -2^31 .. 2^31 - 1
Int32(x) ==
    IF x > MaxInt32 THEN Int32(x - MaxInt32 - MaxInt32 - 2)
    ELSE IF x < -MaxInt32 - 1 THEN Int32(x + MaxInt32 + MaxInt32 + 2)
    ELSE x

\* mallocgc(.., zero = false): the nb bytes behind the header, not cleared
mallocgc(nb, junk) == [i \in 1 .. nb |-> junk]

\* copy(dst, src)
copy(dst, src) ==
    [i \in DOMAIN dst |-> IF i <= Len(src) THEN src[i] ELSE dst[i]]

\* StackMapBuilder.Build without its copy of the bits
Build_NoCopy(b, junk) ==
    [N |-> 1, L |-> Int32(b.N), B |-> mallocgc(Len(b.B), junk)]

\* StackMapBuilder.Build
Build(b, junk) ==
    LET nb == Len(b.B)
    IN  [N |-> 1, L |-> Int32(b.N), B |-> copy(mallocgc(nb, junk), b.B)]

\* the argument AddField / AddFields hands to the Bitmap
PtrBit(ptr) == IF ptr THEN 1 ELSE 0

\* StackMapBuilder.AddField
AddField(b, ptr) == BitmapAppend(b, PtrBit(ptr))

\* StackMapBuilder.AddFields
AddFields(b, n, ptr) == BitmapAppendMany(b, n, PtrBit(ptr))

NoMap == [N |-> 0, L |-> 0, B |-> <<>>]

NoCall == [op |-> "none", i |-> 0, n |-> 0, bv |-> 0, panic |-> FALSE]

CallOf(op, i, n, bv, panic) == [op |-> op, i |-> i, n |-> n, bv |-> bv, panic |-> panic]

InitRt ==
    /\ bmp = [N |-> 0, B |-> <<>>]
    /\ last = NoCall
    /\ fields = <<>>
    /\ calls = [field |-> 0, many |-> 0, bits |-> 0]
    /\ sm = NoMap

-----------------------------------------------------------------------------
(* StackMap.Pin and the retention set.  A StackMap is known by its address, *)
(* its index in heap; the retention set maps addresses to struct{}{}.      *)

Threads == {"t1", "t2"}

\* _stackMapLock held by no thread
Free == "free"

\* Pin's result, uintptr(unsafe.Pointer(self)): the address as an integer
Handle(self) == self

\* the map store of freeze, the map replaced by one holding self alone
freeze_Reset(c, self) == {self}

\* the map store of freeze: _stackMapCache[self] = struct{}{}
freeze(c, self) == c \cup {self}

\* _stackMapLock.Lock() returning whoever holds the mutex
CanLock_Always(l) == TRUE

\* _stackMapLock.Lock() returns only when no thread holds the mutex
CanLock(l) == l = Free

InitPinThreads ==
    /\ stackMapCache = {}
    /\ stackMapLock = Free
    /\ tpc = [t \in Threads |-> "idle"]
    /\ tself = [t \in Threads |-> 0]
    /\ tmap = [t \in Threads |-> {}]
    /\ pins = {}

InitPin == heap = <<>> /\ InitPinThreads

-----------------------------------------------------------------------------
(* encoder.Link and encoder.SetLinker.  The variable linker is an interface *)
(* value of two words, the type word tab and the data word; a Linker is    *)
(* known by its name, which both of its words hold.                        *)

Nil == "nil"

Linkers == {"L1", "L2"}

Programs == {"p1", "p2"}

NilLinker == [tab |-> Nil, data |-> Nil]

\* the Encoder of the built-in linker: what ran, on which receiver, for
\* which program
link_emu(p) == [by |-> "emu", recv |-> Nil, p |-> p, panic |-> FALSE]

\* linker.Link(p): the method the type word names, called on the data word;
\* a nil type word is a nil dereference
LinkerLink(tab, data, p) ==
    IF tab = Nil THEN [by |-> Nil, recv |-> data, p |-> p, panic |-> TRUE]
    ELSE [by |-> tab, recv |-> data, p |-> p, panic |-> FALSE]

\* Link with the test of linker inverted
Link_Inverted(lk, p) ==
    IF lk.tab # Nil THEN link_emu(p) ELSE LinkerLink(lk.tab, lk.data, p)

\* Link(p) run with nothing in between its reads of linker
Link(lk, p) ==
    IF lk.tab = Nil THEN link_emu(p) ELSE LinkerLink(lk.tab, lk.data, p)

\* a store that keeps a word already set
StoreWord_Once(cur, w, v) == IF cur[w] = Nil THEN [cur EXCEPT ![w] = v] ELSE cur

\* the store of one word of linker
StoreWord(cur, w, v) == [cur EXCEPT ![w] = v]

\* SetLinker(v) run with nothing in between its stores
SetLinker(cur, v) == StoreWord(StoreWord(cur, "tab", v), "data", v)

\* the locals of a thread outside Link and SetLinker
NoReg == [arg |-> Nil, tab |-> Nil, first |-> "tab", clean |-> TRUE, set |-> Nil]

\* history of a Link call that ended: its program, the Encoder it returned,
\* whether no store to linker ran between the start of a SetLinker before
\* its test and its end, and if so the argument of the last SetLinker that
\* had returned at its test
LinkDone(p, enc, clean, set) ==
    [p |-> p, enc |-> enc, clean |-> clean, set |-> IF clean THEN set ELSE Nil]

InitLink ==
    /\ linker = NilLinker
    /\ lpc = [t \in Threads |-> "idle"]
    /\ lreg = [t \in Threads |-> NoReg]
    /\ links = <<>>
    /\ lastSet = Nil

-----------------------------------------------------------------------------
(* A caller that runs Apply on one CFG, MaxApply times in a row.           *)

InitIdleTDCE(g) ==
    /\ cfg = g
    /\ pc = "idle"
    /\ decl = {}
    /\ done = TRUE
    /\ napply = 0
    /\ cfgA = g
    /\ cfgR = g
    /\ round = 0

InitTDCE == (\E g \in InputCfgs : InitIdleTDCE(g)) /\ InitRt /\ InitPin /\ InitLink

\* the call of Apply and the head of its first round
Call ==
    /\ pc \in {"idle", "returned"}
    /\ napply < MaxApply
    /\ napply' = napply + 1
    /\ done' = TRUE
    /\ decl' = {}
    /\ cfgA' = cfg
    /\ cfgR' = cfg
    /\ round' = 1
    /\ pc' = "phase1"
    /\ UNCHANGED <<cfg, rtVars, pinVars, linkVars>>

Phase1 ==
    /\ pc = "phase1"
    /\ decl' = Phase1Decl(cfg, decl)
    /\ pc' = "phase2"
    /\ UNCHANGED <<cfg, done, napply, cfgA, cfgR, round, rtVars, pinVars, linkVars>>

Phase2 ==
    /\ pc = "phase2"
    /\ decl' = Phase2Decl(cfg, decl)
    /\ pc' = "phase3"
    /\ UNCHANGED <<cfg, done, napply, cfgA, cfgR, round, rtVars, pinVars, linkVars>>

Phase3 ==
    /\ pc = "phase3"
    /\ cfg' = Phase3Cfg(cfg, decl)
    /\ done' = (done /\ ~Phase3Changes(cfg, decl))
    /\ pc' = "phase4"
    /\ UNCHANGED <<decl, napply, cfgA, cfgR, round, rtVars, pinVars, linkVars>>

Phase4 ==
    /\ pc = "phase4"
    /\ cfg' = Phase4Cfg(cfg)
    /\ pc' = "test"
    /\ UNCHANGED <<decl, done, napply, cfgA, cfgR, round, rtVars, pinVars, linkVars>>

\* if done { break }: Apply returns
Return ==
    /\ pc = "test"
    /\ done
    /\ pc' = "returned"
    /\ UNCHANGED <<cfg, decl, done, napply, cfgA, cfgR, round, rtVars, pinVars, linkVars>>

\* not done: the head of the next round
NextRound ==
    /\ pc = "test"
    /\ ~done
    /\ done' = TRUE
    /\ decl' = {}
    /\ cfgR' = cfg
    /\ round' = round + 1
    /\ pc' = "phase1"
    /\ UNCHANGED <<cfg, napply, cfgA, rtVars, pinVars, linkVars>>

NextTDCE == Call \/ Phase1 \/ Phase2 \/ Phase3 \/ Phase4 \/ Return \/ NextRound

SpecTDCE == InitTDCE /\ [][NextTDCE]_vars

InitSmallTDCE == (\E g \in SmallCfgs : InitIdleTDCE(g)) /\ InitRt /\ InitPin /\ InitLink

\* Apply is a sequential loop: the thread running it keeps taking steps
FairTDCE == InitSmallTDCE /\ [][NextTDCE]_vars /\ WF_vars(NextTDCE)

-----------------------------------------------------------------------------
(* A caller of one Bitmap: Append, AppendMany and Set in any order.  A     *)
(* panic ends the program.                                                 *)

\* the bv arguments tried
BitArgs == {0, 1, 2}

\* the n arguments tried
CountArgs == -1 .. MaxN

Max(a, b) == IF a >= b THEN a ELSE b

CallAppend ==
    \E bv \in BitArgs :
        /\ ~last.panic
        /\ bmp.N < MaxBits
        /\ LET r == BitmapAppend(bmp, bv)
           IN  /\ bmp' = r.bm
               /\ last' = CallOf("Append", 0, 1, bv, r.panic)
        /\ UNCHANGED <<fields, calls, sm, tdceVars, pinVars, linkVars>>

CallAppendMany ==
    \E n \in CountArgs, bv \in BitArgs :
        /\ ~last.panic
        /\ bmp.N + Max(n, 0) <= MaxBits
        /\ LET r == BitmapAppendMany(bmp, n, bv)
           IN  /\ bmp' = r.bm
               /\ last' = CallOf("AppendMany", 0, n, bv, r.panic)
        /\ UNCHANGED <<fields, calls, sm, tdceVars, pinVars, linkVars>>

CallSet ==
    \E i \in -1 .. bmp.N + 1, bv \in BitArgs :
        /\ ~last.panic
        /\ LET r == BitmapSet(bmp, i, bv)
           IN  /\ bmp' = r.bm
               /\ last' = CallOf("Set", i, 0, bv, r.panic)
        /\ UNCHANGED <<fields, calls, sm, tdceVars, pinVars, linkVars>>

InitOther == InitIdleTDCE(InputCfg(<<>>, <<>>, <<NoDefs, NoUses>>))

InitBitmap == InitRt /\ InitOther /\ InitPin /\ InitLink

NextBitmap == CallAppend \/ CallAppendMany \/ CallSet

SpecBitmap == InitBitmap /\ [][NextBitmap]_vars

-----------------------------------------------------------------------------
(* A caller of one StackMapBuilder: AddField, AddFields and Build in any   *)
(* order.  bmp is the builder's field b; fields and calls record what the  *)
(* builder was asked for.                                                  *)

\* k copies of flag x
Copies(k, x) == [i \in 1 .. k |-> x]

CallAddField ==
    \E ptr \in BOOLEAN :
        /\ ~last.panic
        /\ calls.field + calls.many < MaxCalls
        /\ Len(fields) < MaxBits
        /\ LET r == AddField(bmp, ptr)
           IN  /\ bmp' = r.bm
               /\ last' = CallOf("AddField", 0, 1, PtrBit(ptr), r.panic)
        /\ fields' = Append(fields, ptr)
        /\ calls' = [calls EXCEPT !.field = @ + 1]
        /\ UNCHANGED <<sm, tdceVars, pinVars, linkVars>>

CallAddFields ==
    \E n \in CountArgs, ptr \in BOOLEAN :
        /\ ~last.panic
        /\ calls.field + calls.many < MaxCalls
        /\ Len(fields) + Max(n, 0) <= MaxBits
        /\ LET r == AddFields(bmp, n, ptr)
           IN  /\ bmp' = r.bm
               /\ last' = CallOf("AddFields", 0, n, PtrBit(ptr), r.panic)
        /\ fields' = fields \o Copies(Max(n, 0), ptr)
        /\ calls' = [calls EXCEPT !.many = @ + 1, !.bits = @ + Max(n, 0)]
        /\ UNCHANGED <<sm, tdceVars, pinVars, linkVars>>

CallBuild ==
    \E junk \in {0, 255} :
        /\ ~last.panic
        /\ sm' = Build(bmp, junk)
        /\ last' = CallOf("Build", 0, 0, 0, FALSE)
        /\ UNCHANGED <<bmp, fields, calls, tdceVars, pinVars, linkVars>>

NextStackMap == CallAddField \/ CallAddFields \/ CallBuild

SpecStackMap == InitBitmap /\ [][NextStackMap]_vars

-----------------------------------------------------------------------------
(* One caller that fills a builder, keeps the StackMaps it builds and pins  *)
(* them, each call run to its end.                                         *)

PinAddField == CallAddField /\ Len(fields') <= MaxPinBits

PinAddFields == CallAddFields /\ Len(fields') <= MaxPinBits

\* Build, its result kept by the caller
KeepBuild ==
    \E junk \in {0, 255} :
        /\ ~last.panic
        /\ Len(heap) < MaxMaps
        /\ sm' = Build(bmp, junk)
        /\ heap' = Append(heap, sm')
        /\ last' = CallOf("Build", 0, 0, 0, FALSE)
        /\ UNCHANGED <<bmp, fields, calls, tdceVars, linkVars,
                       stackMapCache, stackMapLock, tpc, tself, tmap, pins>>

\* Pin on a StackMap the caller holds
CallPin ==
    \E self \in DOMAIN heap :
        /\ ~last.panic
        /\ CanLock(stackMapLock)
        /\ stackMapCache' = freeze(stackMapCache, self)
        /\ pins' = pins \cup {<<self, Handle(self)>>}
        /\ last' = CallOf("Pin", self, 0, 0, FALSE)
        /\ UNCHANGED <<bmp, fields, calls, sm, tdceVars, linkVars,
                       heap, stackMapLock, tpc, tself, tmap>>

NextPin == PinAddField \/ PinAddFields \/ KeepBuild \/ CallPin

SpecPin == InitBitmap /\ [][NextPin]_vars

-----------------------------------------------------------------------------
(* Threads that pin the StackMaps of a heap, step by step.  The map store   *)
(* is not atomic: it reads the map and writes it back with the key added.  *)

\* the StackMaps on the heap: built from an empty builder or after
\* AddField(true)
PinnableMaps ==
    {Build(b, 0) : b \in {[N |-> 0, B |-> <<>>], AddField([N |-> 0, B |-> <<>>], TRUE).bm}}

InitThreads ==
    /\ InitRt /\ InitOther /\ InitLink /\ InitPinThreads
    /\ heap \in [1 .. MaxMaps -> PinnableMaps]

PinCall(t) ==
    \E self \in DOMAIN heap :
        /\ tpc[t] = "idle"
        /\ tself' = [tself EXCEPT ![t] = self]
        /\ tpc' = [tpc EXCEPT ![t] = "lock"]
        /\ UNCHANGED <<heap, stackMapCache, stackMapLock, tmap, pins,
                       rtVars, tdceVars, linkVars>>

FreezeLock(t) ==
    /\ tpc[t] = "lock"
    /\ CanLock(stackMapLock)
    /\ stackMapLock' = t
    /\ tpc' = [tpc EXCEPT ![t] = "read"]
    /\ UNCHANGED <<heap, stackMapCache, tself, tmap, pins, rtVars, tdceVars, linkVars>>

FreezeRead(t) ==
    /\ tpc[t] = "read"
    /\ tmap' = [tmap EXCEPT ![t] = stackMapCache]
    /\ tpc' = [tpc EXCEPT ![t] = "write"]
    /\ UNCHANGED <<heap, stackMapCache, stackMapLock, tself, pins,
                   rtVars, tdceVars, linkVars>>

FreezeWrite(t) ==
    /\ tpc[t] = "write"
    /\ stackMapCache' = freeze(tmap[t], tself[t])
    /\ tmap' = [tmap EXCEPT ![t] = {}]
    /\ tpc' = [tpc EXCEPT ![t] = "unlock"]
    /\ UNCHANGED <<heap, stackMapLock, tself, pins, rtVars, tdceVars, linkVars>>

FreezeUnlock(t) ==
    /\ tpc[t] = "unlock"
    /\ stackMapLock' = Free
    /\ tpc' = [tpc EXCEPT ![t] = "return"]
    /\ UNCHANGED <<heap, stackMapCache, tself, tmap, pins, rtVars, tdceVars, linkVars>>

PinReturn(t) ==
    /\ tpc[t] = "return"
    /\ pins' = pins \cup {<<tself[t], Handle(tself[t])>>}
    /\ tpc' = [tpc EXCEPT ![t] = "idle"]
    /\ UNCHANGED <<heap, stackMapCache, stackMapLock, tself, tmap,
                   rtVars, tdceVars, linkVars>>

\* the steps of a Pin call under way
PinStep(t) == FreezeRead(t) \/ FreezeWrite(t) \/ FreezeUnlock(t) \/ PinReturn(t)

NextThreads == \E t \in Threads : PinCall(t) \/ FreezeLock(t) \/ PinStep(t)

SpecThreads == InitThreads /\ [][NextThreads]_vars

\* a thread in a Pin call keeps running, and a thread waiting for the mutex
\* gets it if it is free again and again
FairThreads ==
    /\ SpecThreads
    /\ \A t \in Threads : WF_vars(PinStep(t)) /\ SF_vars(FreezeLock(t))

-----------------------------------------------------------------------------
(* One caller of SetLinker and Link, each call run to its end. *)

InitLinks == InitLink /\ InitRt /\ InitOther /\ InitPin

CallSetLinker ==
    \E v \in Linkers \cup {Nil} :
        /\ linker' = SetLinker(linker, v)
        /\ lastSet' = v
        /\ UNCHANGED <<lpc, lreg, links, rtVars, tdceVars, pinVars>>

CallLink ==
    \E p \in Programs :
        /\ Len(links) < MaxLinkCalls
        /\ links' = Append(links, LinkDone(p, Link(linker, p), TRUE, lastSet))
        /\ UNCHANGED <<linker, lpc, lreg, lastSet, rtVars, tdceVars, pinVars>>

NextLink == CallSetLinker \/ CallLink

SpecLink == InitLinks /\ [][NextLink]_vars

-----------------------------------------------------------------------------
(* A thread that calls SetLinker while it and another thread call Link,    *)
(* with no synchronisation.  The accesses to linker race: SetLinker stores *)
(* its two words one at a time, in either order; Link reads the type word  *)
(* for its test and, to make the call, takes the type word it has or reads *)
(* it again, and reads the data word.                                      *)

\* the other word of an interface value
OtherWord(w) == IF w = "tab" THEN "data" ELSE "tab"

\* the threads between the two stores of SetLinker
Storing == {t \in Threads : lpc[t] = "store"}

\* the locals of all threads after a store by thread t: every other call
\* under way has seen linker change
Disturbed(regs, t) ==
    [u \in Threads |->
        IF u = t THEN regs[u] ELSE [regs[u] EXCEPT !.clean = FALSE, !.set = Nil]]

\* SetLinker, its first store
SetFirst(t) ==
    \E v \in Linkers \cup {Nil}, w \in {"tab", "data"} :
        /\ lpc[t] = "idle"
        /\ linker' = StoreWord(linker, w, v)
        /\ lreg' = Disturbed([lreg EXCEPT ![t] =
                       [arg |-> v, tab |-> Nil, first |-> w,
                        clean |-> Storing = {}, set |-> Nil]], t)
        /\ lpc' = [lpc EXCEPT ![t] = "store"]
        /\ UNCHANGED <<links, lastSet, rtVars, tdceVars, pinVars>>

\* SetLinker, its second store and return
SetSecond(t) ==
    /\ lpc[t] = "store"
    /\ linker' = StoreWord(linker, OtherWord(lreg[t].first), lreg[t].arg)
    /\ lastSet' = lreg[t].arg
    /\ lreg' = Disturbed([lreg EXCEPT ![t] = NoReg], t)
    /\ lpc' = [lpc EXCEPT ![t] = "idle"]
    /\ UNCHANGED <<links, rtVars, tdceVars, pinVars>>

\* the calls of Link that ended or are under way
LinkCalls == Len(links) + Cardinality({t \in Threads : lpc[t] = "call"})

\* the program each thread links
ProgramOf == [t \in Threads |-> IF t = "t1" THEN "p1" ELSE "p2"]

\* Link, the test linker == nil and, when it holds, return link_emu(p)
LinkTest(t) ==
    \E p \in {ProgramOf[t]} :
        /\ lpc[t] = "idle"
        /\ LinkCalls < MaxLinkCalls
        /\ LET clean == Storing = {} /\ linker.tab = linker.data
           IN  IF linker.tab = Nil
               THEN /\ links' = Append(links, LinkDone(p, link_emu(p), clean, lastSet))
                    /\ UNCHANGED <<lpc, lreg>>
               ELSE /\ lreg' = [lreg EXCEPT ![t] =
                                  [arg |-> p, tab |-> linker.tab, first |-> "tab",
                                   clean |-> clean,
                                   set |-> IF clean THEN lastSet ELSE Nil]]
                    /\ lpc' = [lpc EXCEPT ![t] = "call"]
                    /\ UNCHANGED links
        /\ UNCHANGED <<linker, lastSet, rtVars, tdceVars, pinVars>>

\* Link, return linker.Link(p)
LinkCall(t) ==
    \E tab \in {lreg[t].tab, linker.tab} :
        /\ lpc[t] = "call"
        /\ links' = Append(links, LinkDone(lreg[t].arg,
                                           LinkerLink(tab, linker.data, lreg[t].arg),
                                           lreg[t].clean, lreg[t].set))
        /\ lreg' = [lreg EXCEPT ![t] = NoReg]
        /\ lpc' = [lpc EXCEPT ![t] = "idle"]
        /\ UNCHANGED <<linker, lastSet, rtVars, tdceVars, pinVars>>

\* the threads that install Linkers and the threads that link
Setters == {"t1"}
Callers == Threads

NextLinkThreads ==
    \/ \E t \in Setters : SetFirst(t) \/ SetSecond(t)
    \/ \E t \in Callers : LinkTest(t) \/ LinkCall(t)

SpecLinkThreads == InitLinks /\ [][NextLinkThreads]_vars

-----------------------------------------------------------------------------
(* What the claims about TDCE speak of. *)

AllNodes(g) == UNION {NodesOf(g[b]) : b \in DOMAIN g}

\* the Phi nodes and instructions of a block, the entries compaction may drop
Entries(bb) == Range(bb.Phi) \cup Range(bb.Ins)

InList(s, id) == \E i \in DOMAIN s : s[i].id = id

Present(g, id) == \E v \in AllNodes(g) : v.id = id

NodeOf(g, id) == CHOOSE v \in AllNodes(g) : v.id = id

\* node id sits in the same list of the same block in g and in h
SamePlace(g, h, id) ==
    \A b \in DOMAIN g :
        /\ InList(g[b].Phi, id) <=> InList(h[b].Phi, id)
        /\ InList(g[b].Ins, id) <=> InList(h[b].Ins, id)
        /\ (g[b].Term.id = id) <=> (h[b].Term.id = id)

\* register r is read by a node of g
ReadIn(g, r) == \E v \in AllNodes(g) : r \in Range(Usages(v))

\* the declaration slots of g that hold a register other than the sentinel
LiveSlots(g) ==
    UNION {{<<v.id, i>> : i \in {j \in DOMAIN Definitions(v) : Definitions(v)[j] # Rz}} :
             v \in AllNodes(g)}

\* the declaration slots of g that hold the sentinel
ZeroSlots(g) ==
    UNION {{<<v.id, i>> : i \in {j \in DOMAIN Definitions(v) : Definitions(v)[j] = Rz}} :
             v \in AllNodes(g)}

\* every register held by a slot of g
RegsIn(g) == UNION {Range(Definitions(v)) \cup Range(Usages(v)) : v \in AllNodes(g)}

\* a node that declares at least one register, all of them the sentinel
AllZero(v) ==
    /\ v.hasDefs
    /\ Len(v.defs) >= 1
    /\ \A i \in DOMAIN v.defs : v.defs[i] = Rz

\* C1 (as claimed): when Apply returns, every non-sentinel register declared
\* by a node still in the CFG is read by a node still in the CFG.
C1_Soundness ==
    pc = "returned" =>
        \A v \in AllNodes(cfg) : \A i \in DOMAIN Definitions(v) :
            Definitions(v)[i] # Rz => ReadIn(cfg, Definitions(v)[i])

\* C2 (as claimed): an Apply run on the CFG a previous Apply returned leaves
\* the CFG as it found it.
C2_Idempotent == (pc = "returned" /\ napply >= 2) => cfg = cfgA

\* a slot of the round's CFG whose register is in rs and is read in that
\* round still holds it after phase 3
KeptInRound(rs) ==
    pc = "phase4" =>
        \A v \in AllNodes(cfgR) : \A i \in DOMAIN Definitions(v) :
            (Definitions(v)[i] \in rs /\ ReadIn(cfgR, Definitions(v)[i])) =>
                /\ Present(cfg, v.id)
                /\ Definitions(NodeOf(cfg, v.id))[i] = Definitions(v)[i]

\* a slot whose register is in rs and is read by a node left at the return
\* holds its original value, and its node is where it was
KeptAtReturn(rs) ==
    pc = "returned" =>
        \A v \in AllNodes(cfgA) : \A i \in DOMAIN Definitions(v) :
            (Definitions(v)[i] \in rs /\ ReadIn(cfg, Definitions(v)[i])) =>
                /\ Present(cfg, v.id)
                /\ SamePlace(cfgA, cfg, v.id)
                /\ Definitions(NodeOf(cfg, v.id))[i] = Definitions(v)[i]

\* C3 (as claimed): a register read in a round is not rewritten in it, and
\* any register read by a node that survives Apply keeps its value in its
\* defining slot, its defining Phi node or instruction still in its block.
C3_LivenessAnyRegister == KeptInRound(Reg) /\ KeptAtReturn(Reg)

\* C3 (amended): the same for every register other than the sentinel; an
\* instruction whose slots all hold the sentinel is dropped even when the
\* sentinel is read.
C3_LivenessPreserved == KeptInRound(Reg \ {Rz}) /\ KeptAtReturn(Reg \ {Rz})

\* a register read by the terminator of b1 and declared by an instruction
\* was kept while an unread one was neutralized
C3_Witness ==
    /\ pc = "returned"
    /\ napply = 1
    /\ round >= 2
    /\ \E v \in Range(cfg["b0"].Ins) : \E i \in DOMAIN Definitions(v) :
          /\ Definitions(v)[i] # Rz
          /\ Definitions(v)[i] \in Range(Usages(cfg["b1"].Term))
    /\ LiveSlots(cfg) # LiveSlots(cfgA)

\* C4: every round but the last lowers the number of non-sentinel
\* declaration slots, no step brings a register into the CFG, phase 3 leaves
\* sentinel slots alone and clears done only when it rewrote a slot, the
\* loop is left after the first round that rewrote nothing, and every Apply
\* returns.
C4_Termination ==
    /\ [][(pc = "test" /\ pc' = "phase1") =>
            Cardinality(LiveSlots(cfg)) < Cardinality(LiveSlots(cfgR))]_vars
    /\ [][RegsIn(cfg') \subseteq (RegsIn(cfg) \cup {Rz})
            /\ LiveSlots(cfg') \subseteq LiveSlots(cfg)]_vars
    /\ [][pc = "phase3" =>
            /\ ZeroSlots(cfg) \subseteq ZeroSlots(cfg')
            /\ (done' # done) => LiveSlots(cfg') # LiveSlots(cfg)]_vars
    /\ [][pc = "test" => ((pc' = "returned") <=> (LiveSlots(cfg) = LiveSlots(cfgR)))]_vars
    /\ (pc \notin {"idle", "returned"}) ~> (pc = "returned")

\* an Apply of three rounds returned, on a CFG with a sentinel slot
C4_Witness ==
    /\ pc = "returned"
    /\ round = 3
    /\ ZeroSlots(cfgA) # {}
    /\ Cardinality(LiveSlots(cfg)) < Cardinality(LiveSlots(cfgA))

\* C5: when Apply returns no block holds a Phi node or instruction that
\* declares registers that are all the sentinel, and a step drops a Phi node
\* or instruction only if it declares at least one register and all of them
\* are the sentinel.
C5_DeadEntries ==
    /\ [](pc = "returned" =>
            \A b \in DOMAIN cfg : \A v \in Entries(cfg[b]) : ~AllZero(v))
    /\ [][\A b \in DOMAIN cfg : \A v \in Entries(cfg[b]) :
            (~\E w \in Entries(cfg'[b]) : w.id = v.id) => AllZero(v)]_vars

\* an instruction was dropped while one with an empty Definitions() stayed
C5_Witness ==
    /\ pc = "returned"
    /\ \E v \in Entries(cfgA["b0"]) : ~Present(cfg, v.id)
    /\ \E v \in Entries(cfg["b0"]) : v.hasDefs /\ Len(v.defs) = 0

\* C6: in every state of an Apply the CFG has the blocks it was called
\* with, every block has its terminator with the same control edges and the
\* same usages, and every instruction without IrDefinitions is in its block,
\* unchanged.
C6_NeverRemoved ==
    /\ DOMAIN cfg = DOMAIN cfgA
    /\ \A b \in DOMAIN cfgA :
          /\ cfg[b].Term.id = cfgA[b].Term.id
          /\ cfg[b].Term.succ = cfgA[b].Term.succ
          /\ cfg[b].Term.hasDefs = cfgA[b].Term.hasDefs
          /\ Usages(cfg[b].Term) = Usages(cfgA[b].Term)
          /\ \A v \in Range(cfgA[b].Ins) :
                ~v.hasDefs => \E i \in DOMAIN cfg[b].Ins : cfg[b].Ins[i] = v

\* the terminator's declared register was neutralized, an instruction was
\* dropped and one without IrDefinitions stayed
C6_Witness ==
    /\ pc = "returned"
    /\ AllZero(cfg["b1"].Term)
    /\ ~AllZero(cfgA["b1"].Term)
    /\ \E v \in Range(cfg["b0"].Ins) : ~v.hasDefs
    /\ Len(cfg["b0"].Ins) < Len(cfgA["b0"].Ins)

\* slot i of v holds a register of rs that w reads, and w is v or declares a
\* register of rs that v reads
Cycle(v, i, w, rs) ==
    /\ Definitions(v)[i] \in rs
    /\ Definitions(v)[i] \in Range(Usages(w))
    /\ \/ w.id = v.id
       \/ \E j \in DOMAIN Definitions(w) :
             Definitions(w)[j] \in rs /\ Definitions(w)[j] \in Range(Usages(v))

\* the nodes of the CFG Apply was called with that read their own register
\* of rs, or one another's, are in place with those slots as they were
KeptCycles(rs) ==
    \A v \in AllNodes(cfgA) : \A w \in AllNodes(cfgA) :
        \A i \in DOMAIN Definitions(v) :
            Cycle(v, i, w, rs) =>
                /\ Present(cfg, v.id)
                /\ SamePlace(cfgA, cfg, v.id)
                /\ Definitions(NodeOf(cfg, v.id))[i] = Definitions(v)[i]

\* C14 (as claimed): a node whose usages hold the register it declares is
\* neither neutralized nor removed in any state of Apply, and neither are
\* two nodes that read each other's registers, whatever else reads them.
C14_SelfUseAnyRegister == KeptCycles(Reg)

\* C14 (amended): the same for every register other than the sentinel; an
\* instruction that declares only the sentinel and reads it is removed.
C14_SelfUse == KeptCycles(Reg \ {Rz})

\* Apply returned after neutralizing a slot, and the Phi node of b1, which
\* alone reads the register it declares, is in b1 as it was
C14_Witness ==
    /\ pc = "returned"
    /\ LiveSlots(cfg) # LiveSlots(cfgA)
    /\ Len(cfgA["b1"].Phi) = 1
    /\ LET v == cfgA["b1"].Phi[1]
       IN  /\ v.defs[1] # Rz
           /\ v.defs[1] \in Range(v.uses)
           /\ \A w \in AllNodes(cfgA) : w.id # v.id => v.defs[1] \notin Range(Usages(w))
           /\ cfg["b1"].Phi = <<v>>

\* the slots of v that hold a register other than the sentinel which no node
\* of g reads
UnreadSlots(g, v) ==
    {i \in DOMAIN Definitions(v) :
        Definitions(v)[i] # Rz /\ ~ReadIn(g, Definitions(v)[i])}

\* C15: in a round, phase 3 rewrites to the sentinel exactly the slots of a
\* node with several slots whose register no node reads and leaves its
\* other slots as they are; the node is in its block after the round
\* unless all its slots then hold the sentinel, a step removes a node only
\* when all of its slots hold the sentinel, and when Apply returns a slot
\* unread at the call holds the sentinel while a slot whose register a
\* remaining node reads is as it was, in its node, in its block.
C15_PerRegister ==
    /\ [][pc = "phase3" =>
            \A v \in AllNodes(cfg) :
                Len(Definitions(v)) >= 2 =>
                    /\ Present(cfg', v.id)
                    /\ SamePlace(cfg, cfg', v.id)
                    /\ \A i \in DOMAIN Definitions(v) :
                          Definitions(NodeOf(cfg', v.id))[i] =
                              (IF i \in UnreadSlots(cfg, v) THEN Rz
                               ELSE Definitions(v)[i])]_vars
    /\ [](pc = "test" =>
            \A v \in AllNodes(cfgR) :
                (/\ Len(Definitions(v)) >= 2
                 /\ \E i \in DOMAIN Definitions(v) :
                       Definitions(v)[i] # Rz /\ i \notin UnreadSlots(cfgR, v)) =>
                    /\ Present(cfg, v.id)
                    /\ SamePlace(cfgR, cfg, v.id)
                    /\ \A i \in DOMAIN Definitions(v) :
                          Definitions(NodeOf(cfg, v.id))[i] =
                              (IF i \in UnreadSlots(cfgR, v) THEN Rz
                               ELSE Definitions(v)[i]))
    /\ [][\A v \in AllNodes(cfg) :
            (Len(Definitions(v)) >= 2 /\ ~Present(cfg', v.id)) => AllZero(v)]_vars
    /\ [](pc = "returned" =>
            \A v \in AllNodes(cfgA) :
                Len(Definitions(v)) >= 2 =>
                    \A i \in DOMAIN Definitions(v) :
                        /\ i \in UnreadSlots(cfgA, v) =>
                                (Present(cfg, v.id) => Definitions(NodeOf(cfg, v.id))[i] = Rz)
                        /\ (Definitions(v)[i] # Rz /\ ReadIn(cfg, Definitions(v)[i])) =>
                                /\ Present(cfg, v.id)
                                /\ SamePlace(cfgA, cfg, v.id)
                                /\ Definitions(NodeOf(cfg, v.id))[i] = Definitions(v)[i])

\* an instruction declaring a read and an unread register kept the first,
\* lost the second and stayed in b0
C15_Witness ==
    /\ pc = "returned"
    /\ \E k \in DOMAIN cfgA["b0"].Ins :
          LET v == cfgA["b0"].Ins[k]
          IN  /\ Len(Definitions(v)) = 2
              /\ UnreadSlots(cfgA, v) = {2}
              /\ v.defs[1] # Rz
              /\ Present(cfg, v.id)
              /\ InList(cfg["b0"].Ins, v.id)
              /\ Definitions(NodeOf(cfg, v.id)) = <<v.defs[1], Rz>>

\* the positions in list s of the entries of list t, by id
PlacesIn(s, t) == [k \in DOMAIN t |-> {j \in DOMAIN s : s[j].id = t[k].id}]

\* t holds entries of s, each once, in the order they have in s
SubSeqOf(s, t) ==
    /\ \A k \in DOMAIN t : Cardinality(PlacesIn(s, t)[k]) = 1
    /\ \A k \in DOMAIN t : \A l \in DOMAIN t :
          k < l => \A j \in PlacesIn(s, t)[k] : \A m \in PlacesIn(s, t)[l] : j < m

\* node w is node v but for declaration slots rewritten to the sentinel
SameButZeroed(v, w) ==
    /\ w.id = v.id
    /\ w.hasDefs = v.hasDefs
    /\ w.hasUse = v.hasUse
    /\ w.uses = v.uses
    /\ DOMAIN w.defs = DOMAIN v.defs
    /\ \A i \in DOMAIN v.defs : w.defs[i] \in {v.defs[i], Rz}

\* C17: in every state of an Apply the Phi list and the Ins list of each
\* block hold entries of the list Apply was called with, none twice, in
\* their original order, none from another list or block; every node has the
\* usages it came with and every declaration slot holds its original
\* register or the sentinel.
C17_Frame ==
    /\ DOMAIN cfg = DOMAIN cfgA
    /\ \A b \in DOMAIN cfgA :
          /\ SubSeqOf(cfgA[b].Phi, cfg[b].Phi)
          /\ SubSeqOf(cfgA[b].Ins, cfg[b].Ins)
          /\ \A k \in DOMAIN cfg[b].Phi : \E j \in DOMAIN cfgA[b].Phi :
                SameButZeroed(cfgA[b].Phi[j], cfg[b].Phi[k])
          /\ \A k \in DOMAIN cfg[b].Ins : \E j \in DOMAIN cfgA[b].Ins :
                SameButZeroed(cfgA[b].Ins[j], cfg[b].Ins[k])
          /\ SameButZeroed(cfgA[b].Term, cfg[b].Term)

\* two instructions with usages outlived an Apply that neutralized a slot
\* of one and dropped a Phi node
C17_Witness ==
    /\ pc = "returned"
    /\ Len(cfgA["b0"].Ins) = 2
    /\ Len(cfg["b0"].Ins) = 2
    /\ \A k \in 1 .. 2 : cfg["b0"].Ins[k].id = cfgA["b0"].Ins[k].id
    /\ \E k \in 1 .. 2 : cfg["b0"].Ins[k].defs # cfgA["b0"].Ins[k].defs
    /\ \E k \in 1 .. 2 : Usages(cfg["b0"].Ins[k]) # <<>>
    /\ Len(cfg["b1"].Phi) < Len(cfgA["b1"].Phi)

-----------------------------------------------------------------------------
(* What the claims about the Bitmap and the StackMap speak of. *)

\* bit i of the bytes B
BitOf(B, i) == ByteBit(B[(i \div 8) + 1], i % 8)

\* ceil(n / 8)
CeilDiv8(n) == (n + 7) \div 8

\* C7: the StackMap that Build returns has N = 1, L = the number of flags
\* the builder was asked to append, and bit i set exactly when the i-th
\* flag was 'pointer'.
C7_RoundTrip ==
    last.op = "Build" =>
        /\ sm.N = 1
        /\ sm.L = Len(fields)
        /\ Len(sm.B) >= CeilDiv8(sm.L)
        /\ \A i \in 0 .. sm.L - 1 : BitOf(sm.B, i) = PtrBit(fields[i + 1])

\* a StackMap of more than eight bits, of both kinds, built after an
\* AddFields call that appended nothing
C7_Witness ==
    /\ last.op = "Build"
    /\ sm.L > 8
    /\ \E i \in 1 .. Len(fields) : fields[i]
    /\ \E i \in 1 .. Len(fields) : ~fields[i]
    /\ calls.many >= 2
    /\ calls.bits < Len(fields)
    /\ calls.field + calls.bits = Len(fields)

\* C8 (as claimed): the bit count L of a built StackMap equals the number of
\* AddField / AddFields calls made on its builder.
C8_CallCount == last.op = "Build" => sm.L = calls.field + calls.many

\* C8 (amended): L equals the number of AddField calls plus the sum of the
\* positive n handed to AddFields.
C8_BitCount == last.op = "Build" => sm.L = calls.field + calls.bits

\* a StackMap built after AddFields calls whose n was not 1
C8_Witness ==
    /\ last.op = "Build"
    /\ calls.field >= 1
    /\ calls.many >= 1
    /\ calls.bits # calls.many
    /\ sm.L = calls.field + calls.bits

\* C9: N <= 8 * len(B) and len(B) = ceil(N / 8) in every state, so 8k+1
\* bits take k+1 bytes; an Append adds one bit, and one byte exactly when
\* N = 8 * len(B) before it; no call lowers N or len(B).
C9_Capacity ==
    /\ [](/\ bmp.N <= 8 * Len(bmp.B)
          /\ Len(bmp.B) = CeilDiv8(bmp.N)
          /\ \A k \in 0 .. MaxBits : bmp.N = 8 * k + 1 => Len(bmp.B) = k + 1)
    /\ [][last'.op = "Append" =>
            /\ ~last'.panic
            /\ bmp'.N = bmp.N + 1
            /\ Len(bmp'.B) = Len(bmp.B) + (IF bmp.N = 8 * Len(bmp.B) THEN 1 ELSE 0)]_vars
    /\ [][bmp'.N >= bmp.N /\ Len(bmp'.B) >= Len(bmp.B)]_vars

\* the ninth bit was appended and took the second byte
C9_Witness ==
    /\ last.op = "Append"
    /\ bmp.N = 9
    /\ Len(bmp.B) = 2

\* C10: Set(i, bv) with i >= N panics and leaves the Bitmap as it was; with
\* 0 <= i < N it returns, bit i is 1 if bv # 0 and 0 otherwise, and N,
\* len(B) and every other bit are as before.
C10_Set ==
    [][last'.op = "Set" =>
         LET i == last'.i
         IN  /\ i >= bmp.N => (last'.panic /\ bmp' = bmp)
             /\ (0 <= i /\ i < bmp.N) =>
                   /\ ~last'.panic
                   /\ bmp'.N = bmp.N
                   /\ Len(bmp'.B) = Len(bmp.B)
                   /\ BitOf(bmp'.B, i) = (IF last'.bv # 0 THEN 1 ELSE 0)
                   /\ \A j \in 0 .. 8 * Len(bmp.B) - 1 :
                         j # i => BitOf(bmp'.B, j) = BitOf(bmp.B, j)]_vars

\* Set panicked on the first position past the bits, inside the last byte
C10_Witness ==
    /\ last.op = "Set"
    /\ last.panic
    /\ last.i = bmp.N
    /\ bmp.N < 8 * Len(bmp.B)
    /\ \E j \in 0 .. bmp.N - 1 : BitOf(bmp.B, j) = 1

-----------------------------------------------------------------------------
(* What the claims about Pin and the retention set speak of. *)

\* every StackMap whose Pin returned is retained
PinnedRetained == \A pr \in pins : pr[1] \in stackMapCache

\* C11: a StackMap whose Pin returned is in the retention set in every
\* later state, whatever AddField, AddFields, Build and Pin calls follow;
\* no step takes a member out; a Pin adds its receiver and nothing else,
\* one member more when it was not retained and none when it was; no other
\* call changes the set.
C11_PinPermanent ==
    /\ []PinnedRetained
    /\ [][stackMapCache \subseteq stackMapCache']_vars
    /\ [][last'.op = "Pin" =>
            /\ stackMapCache' = stackMapCache \cup {last'.i}
            /\ Cardinality(stackMapCache') =
                  Cardinality(stackMapCache) + (IF last'.i \in stackMapCache THEN 0 ELSE 1)]_vars
    /\ [][last'.op # "Pin" => stackMapCache' = stackMapCache]_vars

\* two StackMaps were pinned, the first before the second was built, and
\* an AddField / AddFields call followed
C11_Witness ==
    /\ last.op \in {"AddField", "AddFields"}
    /\ pins = {<<1, Handle(1)>>, <<2, Handle(2)>>}
    /\ stackMapCache = {1, 2}
    /\ heap[1].L < heap[2].L
    /\ heap[2].L < bmp.N

\* C16: a Build leaves the builder's bitmap and the retention set as they
\* were and returns a StackMap with N = 1, L = the builder's bit count and
\* the builder's bytes; no step changes a StackMap built before, so every
\* built StackMap holds the flags the builder had been handed when it was
\* built; and an address enters the retention set only in a Pin on it.
C16_Snapshot ==
    /\ [][Len(heap') > Len(heap) =>
            /\ bmp' = bmp
            /\ fields' = fields
            /\ stackMapCache' = stackMapCache
            /\ LET p == heap'[Len(heap')]
               IN  /\ p = sm'
                   /\ p.N = 1
                   /\ p.L = bmp.N
                   /\ p.B = bmp.B]_vars
    /\ [][\A a \in DOMAIN heap : a \in DOMAIN heap' /\ heap'[a] = heap[a]]_vars
    /\ [](\A a \in DOMAIN heap :
            /\ heap[a].N = 1
            /\ heap[a].L <= Len(fields)
            /\ Len(heap[a].B) = CeilDiv8(heap[a].L)
            /\ \A i \in 0 .. heap[a].L - 1 : BitOf(heap[a].B, i) = PtrBit(fields[i + 1]))
    /\ [][\A a \in stackMapCache' \ stackMapCache :
            last'.op = "Pin" /\ last'.i = a]_vars

\* the builder grew after each of two Builds, the first StackMap holds a
\* pointer bit, and only the second was pinned
C16_Witness ==
    /\ Len(heap) = 2
    /\ heap[1].L = 1
    /\ heap[1].B = <<1>>
    /\ heap[2].L > heap[1].L
    /\ bmp.N > heap[2].L
    /\ stackMapCache = {2}

\* the threads between Lock and Unlock of freeze
InFreeze == {t \in Threads : tpc[t] \in {"read", "write", "unlock"}}

\* C12: at most one thread is between Lock and Unlock of freeze; every Pin
\* call returns; the receiver of every Pin that returned is retained; Pin
\* calls on different StackMaps return different handles and Pin calls on
\* one StackMap the same handle; the map store adds its key, one member
\* more when it was not retained and none when it was; the set holds
\* addresses of the heap only and never loses one.
C12_ConcurrentPin ==
    /\ [](Cardinality(InFreeze) <= 1)
    /\ \A t \in Threads : (tpc[t] # "idle") ~> (tpc[t] = "idle")
    /\ []PinnedRetained
    /\ [](\A pr \in pins : \A qr \in pins : (pr[1] = qr[1]) <=> (pr[2] = qr[2]))
    /\ [][\A t \in Threads :
            (tpc[t] = "write" /\ tpc'[t] = "unlock") =>
                /\ stackMapCache' = stackMapCache \cup {tself[t]}
                /\ Cardinality(stackMapCache') =
                      Cardinality(stackMapCache) +
                          (IF tself[t] \in stackMapCache THEN 0 ELSE 1)]_vars
    /\ [](stackMapCache \subseteq DOMAIN heap)
    /\ [][stackMapCache \subseteq stackMapCache']_vars

\* t1 waits for the mutex to pin again the StackMap it pinned before while
\* t2 is inside the insertion with another StackMap of the same contents
C12_Witness ==
    /\ tpc["t1"] = "lock"
    /\ tself["t1"] = 1
    /\ <<1, Handle(1)>> \in pins
    /\ tpc["t2"] = "write"
    /\ tself["t2"] = 2
    /\ heap[1] = heap[2]
    /\ stackMapCache = {1}

-----------------------------------------------------------------------------
(* What the claims about Link and SetLinker speak of. *)

\* the Encoder a Link(p) owes its caller when linker holds v
Owed(v, p) == IF v = Nil THEN link_emu(p) ELSE LinkerLink(v, v, p)

\* C13: a Link(p) call runs one backend and returns its Encoder for p, the
\* installed Linker's if one is installed when it is called and the built-in
\* linker's otherwise, and leaves the installed Linker as it was.
C13_Dispatch ==
    /\ [][Len(links') > Len(links) =>
            /\ linker' = linker
            /\ Len(links') = Len(links) + 1
            /\ LET e == links'[Len(links')]
               IN  /\ e.enc.p = e.p
                   /\ ~e.enc.panic
                   /\ linker.tab = Nil => e.enc = link_emu(e.p)
                   /\ linker.tab # Nil =>
                         (e.enc.by = linker.tab /\ e.enc.recv = linker.data)]_vars
    /\ [](\A i \in DOMAIN links : links[i].enc \in
            {link_emu(links[i].p)} \cup {LinkerLink(l, l, links[i].p) : l \in Linkers})

\* a Link call went to the built-in linker and the next to an installed one
C13_Witness ==
    /\ Len(links) = 2
    /\ links[1].enc.by = "emu"
    /\ links[2].enc.by \in Linkers
    /\ linker.tab = links[2].enc.by

\* a Link call that ended with no store to linker around it returned the
\* Encoder owed for the argument of the last SetLinker that had returned
CleanLinks ==
    \A i \in DOMAIN links :
        links[i].clean => links[i].enc = Owed(links[i].set, links[i].p)

\* C18 (as claimed, its last clause): a Link call whose test saw an
\* installed Linker calls an installed Linker, on that Linker's own data,
\* under every interleaving with SetLinker calls.
C18_NeverAbsent ==
    \A i \in DOMAIN links :
        links[i].enc # link_emu(links[i].p) =>
            /\ ~links[i].enc.panic
            /\ links[i].enc.by \in Linkers
            /\ links[i].enc.recv = links[i].enc.by

\* C18 (amended): SetLinker stores its argument whatever linker holds: a
\* SetLinker that no other SetLinker overlaps leaves linker holding its
\* argument, nil included; a Link call that no SetLinker overlaps uses the
\* backend of the last SetLinker that returned, the built-in linker when
\* that was nil.
C18_LastSetLinker ==
    /\ []CleanLinks
    /\ [][\A t \in Threads :
            (lpc[t] = "store" /\ lpc'[t] = "idle" /\ lreg[t].clean) =>
                /\ linker' = [tab |-> lreg[t].arg, data |-> lreg[t].arg]
                /\ lastSet' = lreg[t].arg]_vars

\* a second SetLinker replaced the first, a third took the Linker away,
\* and the Link calls in between and after followed
C18_Witness ==
    /\ Len(links) = 2
    /\ links[1].clean /\ links[2].clean
    /\ links[1].set \in Linkers
    /\ links[1].enc.by = links[1].set
    /\ links[2].set = Nil
    /\ links[2].enc.by = "emu"
    /\ linker = NilLinker

====
